---- MODULE Spec2Model ----
(***************************************************************************)
(* Model of the credential/session core of the user-management API:        *)
(* the token codec (utils/jwt.utils), the auth controller (register,       *)
(* login, refresh, me), the access guard (authenticate, authorize) and the *)
(* admin operations of the user controller that change role and status.    *)
(***************************************************************************)
EXTENDS Integers, Sequences, FiniteSets, TLC

(* ------------------------------ bounds --------------------------------- *)
MaxUsers == 3
MaxTime == 2

Procs == {"p1", "p2"}

(* --------------------------- configuration ----------------------------- *)
\* lifetimes, in abstract clock units (JWT_EXPIRES_IN and '30d')
AccessTTL == 1
RefreshTTL == 2
Issuer == "user-management-api"
Audience == "user-management-client"
Secret == "k1"
NoSecret == ""

(* ------------------------------ values --------------------------------- *)
Roles == {"admin", "user", "moderator"}
DefaultRole_Admin == "admin"
DefaultRole == "user"
DefaultIsActive == TRUE
NoRole == ""
NoEmail == ""
NoName == ""
NoPassword == ""
NoId == 0
NoDate == -1

\* the register bodies tried: <<email, username, password>>
RegisterBodies ==
    {<<"A@x.com", "alice", "Abcdefg1">>, <<"a@x.com", "alice", "Abcdefg1">>,
     <<"root@x.com", "alice", "Abcdefg1">>, <<"A@x.com", "root", "Abcdefg1">>,
     <<"A@x.com", "alice", "short">>}
GoodPassword == "Abcdefg1"
OtherPassword == "Xyzabcd2"
ShortPassword == "short"
Salts == {"s1"}
\* eight letters, no upper case and no digit: long enough for the schema, too
\* weak for the validators
WeakPassword == "abcdefgh"
\* a JSON number sent as the password
NonStringPassword == "<12345678>"
\* a 60 character string that is no bcrypt digest
SixtyChars == "<60 characters>"
\* the salt bcrypt.genSalt draws when a password is changed
ChangeSalts == {"s2"}

\* String.prototype.toLowerCase / the schema's lowercase setter / normalizeEmail
ToLowerCase(e) ==
    IF e = "A@x.com" THEN "a@x.com" ELSE IF e = "B@x.com" THEN "b@x.com" ELSE e

\* validateRegister: password of length >= 8 with lower, upper and digit
ValidPassword(pw) == pw \in {GoodPassword, OtherPassword}

\* bcrypt.hash: a salted digest, kept apart from a plaintext value
Hash(pw, salt) == [hashed |-> TRUE, salt |-> salt, pw |-> pw]

\* a value stored in the password field without passing the pre-save hook
Plain(pw) == [hashed |-> FALSE, salt |-> "", pw |-> pw]

\* the schema's minlength: 8 on password
MinLength(pw) == pw \notin {ShortPassword, NoPassword}

\* bcrypt.compare of bcryptjs: rejects on a non-string argument, false on a
\* digest that is not 60 characters long, rejects on a 60 character digest
\* with an invalid salt, else the comparison of the digests
BcryptCompare(candidate, stored) ==
    IF candidate = NonStringPassword THEN "throw"
    ELSE IF stored.hashed THEN (IF stored.pw = candidate THEN "true" ELSE "false")
    ELSE IF stored.pw = SixtyChars THEN "throw"
    ELSE "false"

\* bcrypt.compare inside comparePassword (false on a digest that is no hash)
ComparePassword(candidate, stored) == stored.hashed /\ stored.pw = candidate

(* ------------------------------ tokens --------------------------------- *)
NoToken == [id |-> NoId, email |-> NoEmail, role |-> NoRole, exp |-> 0,
            iss |-> "", aud |-> "", key |-> "none"]
\* a string that is no JWT
GarbageToken == [id |-> NoId, email |-> NoEmail, role |-> NoRole, exp |-> 0,
                 iss |-> "", aud |-> "", key |-> "malformed"]
\* a refresh token this server signed for a record that is no longer in the
\* collection
OrphanToken == [id |-> MaxUsers + 1, email |-> NoEmail, role |-> NoRole, exp |-> MaxTime + 2,
                iss |-> Issuer, aud |-> Audience, key |-> Secret]
\* a well-formed token signed with another key
AlienToken == [id |-> 1, email |-> "root@x.com", role |-> "admin", exp |-> MaxTime + 2,
               iss |-> Issuer, aud |-> Audience, key |-> "k2"]

\* tokens signed with this server's key for another issuer / another audience
WrongIssuerToken == [id |-> 1, email |-> "root@x.com", role |-> "admin", exp |-> MaxTime + 2,
                     iss |-> "other-api", aud |-> Audience, key |-> Secret]
WrongAudienceToken == [id |-> 1, email |-> "root@x.com", role |-> "admin", exp |-> MaxTime + 2,
                       iss |-> Issuer, aud |-> "other-client", key |-> Secret]

\* jwt.sign of {id, email, role} with expiresIn JWT_EXPIRES_IN
GenerateToken(payload, secret, t) ==
    [id |-> payload.id, email |-> payload.email, role |-> payload.role,
     exp |-> t + AccessTTL, iss |-> Issuer, aud |-> Audience, key |-> secret]

\* jwt.sign of {id} with expiresIn '30d'
GenerateRefreshToken(payload, secret, t) ==
    [id |-> payload.id, email |-> NoEmail, role |-> NoRole,
     exp |-> t + RefreshTTL, iss |-> Issuer, aud |-> Audience, key |-> secret]

\* the claim shape tells the two kinds apart: refresh tokens carry the id only
IsRefreshShape(tok) == tok.role = NoRole /\ tok.email = NoEmail
IsAccessShape(tok) == tok.role # NoRole /\ tok.email # NoEmail

\* VerifyToken still accepting a token at the instant of its expiry
VerifyToken_Inclusive(tok, isRefreshToken, secret, t) ==
    IF secret = NoSecret THEN [ok |-> FALSE, err |-> "NoSecret"]
    ELSE IF tok.key \in {"malformed", "none"} THEN [ok |-> FALSE, err |-> "JsonWebTokenError"]
    ELSE IF tok.key # secret THEN [ok |-> FALSE, err |-> "JsonWebTokenError"]
    ELSE IF t > tok.exp THEN [ok |-> FALSE, err |-> "TokenExpiredError"]
    ELSE IF tok.aud # Audience THEN [ok |-> FALSE, err |-> "JsonWebTokenError"]
    ELSE IF tok.iss # Issuer THEN [ok |-> FALSE, err |-> "JsonWebTokenError"]
    ELSE [ok |-> TRUE, err |-> ""]

\* jwt.verify(token, secret, {issuer, audience}); isRefreshToken is not read
VerifyToken(tok, isRefreshToken, secret, t) ==
    IF secret = NoSecret THEN [ok |-> FALSE, err |-> "NoSecret"]
    ELSE IF tok.key \in {"malformed", "none"} THEN [ok |-> FALSE, err |-> "JsonWebTokenError"]
    ELSE IF tok.key # secret THEN [ok |-> FALSE, err |-> "JsonWebTokenError"]
    ELSE IF t >= tok.exp THEN [ok |-> FALSE, err |-> "TokenExpiredError"]
    ELSE IF tok.aud # Audience THEN [ok |-> FALSE, err |-> "JsonWebTokenError"]
    ELSE IF tok.iss # Issuer THEN [ok |-> FALSE, err |-> "JsonWebTokenError"]
    ELSE [ok |-> TRUE, err |-> ""]

\* the decoded payload that verifyToken returns
Decoded(tok) == [id |-> tok.id, email |-> tok.email, role |-> tok.role]
NoCtx == [id |-> NoId, email |-> NoEmail, role |-> NoRole]

(* ------------------------------- state --------------------------------- *)
VARIABLES
    users,      \* the user collection: a sequence of records, _id = index
    now,        \* the clock
    jwtSecret,  \* process.env.JWT_SECRET, fixed at process start
    pc,         \* per request slot: where an in-flight handler is suspended
    local,      \* per request slot: the handler's local variables
    held,       \* the tokens the clients keep from earlier responses
    last        \* the last request answered, with its response

vars == <<users, now, jwtSecret, pc, local, held, last>>

SeedAdmin == [email |-> "root@x.com", username |-> "root",
              password |-> Hash(GoodPassword, "s1"), role |-> "admin",
              isActive |-> TRUE, lastLogin |-> NoDate]

NoLocal == [email |-> NoEmail, username |-> NoName, password |-> NoPassword,
            id |-> NoId, isActive |-> FALSE, scheme |-> "", token |-> NoToken]

NoReq == [email |-> NoEmail, username |-> NoName, password |-> NoPassword,
          scheme |-> "", token |-> NoToken, id |-> NoId, role |-> NoRole,
          mode |-> "", roles |-> {}, method |-> "", operator |-> FALSE,
          newPassword |-> NoPassword]

\* res.status(s).json({message, ...}); user = req.user, handler = the route
\* handler was invoked
Res(status, message) ==
    [status |-> status, message |-> message, accessToken |-> NoToken,
     refreshToken |-> NoToken, user |-> NoCtx, handler |-> FALSE]

NoRes == Res(0, "")

Last(p, op, req, res) == [p |-> p, op |-> op, req |-> req, res |-> res]

Init ==
    /\ users = <<SeedAdmin>>
    /\ now = 0
    /\ jwtSecret \in {Secret, NoSecret}
    /\ pc = [p \in Procs |-> "idle"]
    /\ local = [p \in Procs |-> NoLocal]
    /\ held = [access |-> NoToken, refresh |-> NoToken]
    /\ last = Last("p1", "none", NoReq, NoRes)

UserIds == 1..Len(users)

\* the client keeps the newest token of each kind that a response hands out
Keep(res) ==
    held' = [access |-> IF res.accessToken # NoToken
                        THEN res.accessToken ELSE held.access,
             refresh |-> IF res.refreshToken # NoToken
                         THEN res.refreshToken ELSE held.refresh]

Tick ==
    /\ now < MaxTime
    /\ now' = now + 1
    /\ UNCHANGED <<users, jwtSecret, pc, local, held, last>>

(* ----------------------------- user store ------------------------------ *)
\* FindByEmailOrUsername looking at the email alone
FindByEmailOrUsername_EmailOnly(us, email, username) ==
    {i \in 1..Len(us) : email # NoEmail /\ us[i].email = email}

\* User.findOne({$or: [{email}, {username}]}): the records either field selects
FindByEmailOrUsername(us, email, username) ==
    {i \in 1..Len(us) : \/ (email # NoEmail /\ us[i].email = email)
                        \/ (username # NoName /\ us[i].username = username)}

\* the unique indexes on email and username, enforced by User.create
DuplicateKey(us, email, username) ==
    \E i \in 1..Len(us) : us[i].email = email \/ us[i].username = username

\* the document User.create stores: schema defaults, pre-save hook hashes
NewUser(email, username, password, salt) ==
    [email |-> ToLowerCase(email), username |-> username,
     password |-> Hash(password, salt), role |-> DefaultRole,
     isActive |-> DefaultIsActive, lastLogin |-> NoDate]

AccessPayload(us, i) == [id |-> i, email |-> us[i].email, role |-> us[i].role]
RefreshPayload(us, i) == [id |-> i]

(* ------------------------------ register ------------------------------- *)
ConflictMessage(field) ==
    IF field = "email" THEN "User with this email already exists"
    ELSE "User with this username already exists"

RegisterReq(email, username, password) ==
    [NoReq EXCEPT !.email = email, !.username = username, !.password = password]

\* register up to the await of User.findOne (validation, lookup, 409)
RegisterBegin(p, email, username, password) ==
    /\ pc[p] = "idle"
    /\ Len(users) + Cardinality({q \in Procs : pc[q] = "register_create"}) < MaxUsers
    /\ LET req == RegisterReq(email, username, password)
           e == ToLowerCase(email)
           found == FindByEmailOrUsername(users, e, username)
       IN  IF ~ValidPassword(password)
           THEN /\ last' = Last(p, "register", req, Res(400, "validation"))
                /\ UNCHANGED <<users, now, jwtSecret, pc, local, held>>
           ELSE IF found # {}
           THEN /\ \E i \in found :
                      last' = Last(p, "register", req,
                                   Res(409, ConflictMessage(
                                       IF users[i].email = e THEN "email" ELSE "username")))
                /\ UNCHANGED <<users, now, jwtSecret, pc, local, held>>
           ELSE /\ pc' = [pc EXCEPT ![p] = "register_create"]
                /\ local' = [local EXCEPT ![p] =
                                [NoLocal EXCEPT !.email = e, !.username = username,
                                                !.password = password]]
                /\ UNCHANGED <<users, now, jwtSecret, held, last>>

\* the 201 body of register
RegisterSuccess(us, i, secret, t) ==
    [Res(201, "User registered successfully") EXCEPT
        !.accessToken = GenerateToken(AccessPayload(us, i), secret, t),
        !.refreshToken = GenerateRefreshToken(RefreshPayload(us, i), secret, t)]

\* register from User.create to the response (create, tokens, save, 201 / 500)
RegisterCreate(p, salt, saveFails) ==
    /\ pc[p] = "register_create"
    /\ pc' = [pc EXCEPT ![p] = "idle"]
    /\ local' = [local EXCEPT ![p] = NoLocal]
    /\ LET l == local[p]
           req == RegisterReq(l.email, l.username, l.password)
           created == Append(users, NewUser(l.email, l.username, l.password, salt))
           i == Len(created)
       IN  IF DuplicateKey(users, l.email, l.username)
           THEN /\ last' = Last(p, "register", req, Res(500, "Failed to register user"))
                /\ UNCHANGED <<users, now, jwtSecret, held>>
           ELSE IF jwtSecret = NoSecret \/ saveFails
           THEN /\ users' = created
                /\ last' = Last(p, "register", req, Res(500, "Failed to register user"))
                /\ UNCHANGED <<now, jwtSecret, held>>
           ELSE LET res == RegisterSuccess(created, i, jwtSecret, now)
                IN  /\ users' = [created EXCEPT ![i].lastLogin = now]
                    /\ last' = Last(p, "register", req, res)
                    /\ Keep(res)
                    /\ UNCHANGED <<now, jwtSecret>>

(* ------------------------------- login --------------------------------- *)
\* {email, username} of a login body: none, one of them, or both
LoginIdentifiers ==
    {<<NoEmail, NoName>>, <<"A@x.com", NoName>>, <<"root@x.com", NoName>>,
     <<NoEmail, "alice">>}
LoginPasswords == {GoodPassword, OtherPassword}

InvalidCredentials == Res(401, "Invalid credentials")
AccountDeactivated ==
    Res(403, "Your account has been deactivated. Please contact support.")

\* LoginSuccess putting the email and the role into the refresh token too
LoginSuccess_FatRefresh(us, i, secret, t) ==
    [Res(200, "Login successful") EXCEPT
        !.accessToken = GenerateToken(AccessPayload(us, i), secret, t),
        !.refreshToken = [GenerateToken(AccessPayload(us, i), secret, t)
                            EXCEPT !.exp = t + RefreshTTL]]

\* the 200 body of login
LoginSuccess(us, i, secret, t) ==
    [Res(200, "Login successful") EXCEPT
        !.accessToken = GenerateToken(AccessPayload(us, i), secret, t),
        !.refreshToken = GenerateRefreshToken(RefreshPayload(us, i), secret, t)]

\* LoginFound telling a wrong secret apart from an unknown identifier
LoginFound_Leaky(us, i, password, secret, saveFails, t) ==
    IF ~us[i].isActive THEN AccountDeactivated
    ELSE IF ~ComparePassword(password, us[i].password) THEN Res(401, "Invalid password")
    ELSE IF secret = NoSecret \/ saveFails THEN Res(500, "Failed to login")
    ELSE LoginSuccess(us, i, secret, t)

\* LoginFound without the isActive check
LoginFound_NoActiveCheck(us, i, password, secret, saveFails, t) ==
    IF ~ComparePassword(password, us[i].password) THEN InvalidCredentials
    ELSE IF secret = NoSecret \/ saveFails THEN Res(500, "Failed to login")
    ELSE LoginSuccess(us, i, secret, t)

\* the response of login once findOne returned record i
LoginFound(us, i, password, secret, saveFails, t) ==
    IF ~us[i].isActive THEN AccountDeactivated
    ELSE IF ~ComparePassword(password, us[i].password) THEN InvalidCredentials
    ELSE IF secret = NoSecret \/ saveFails THEN Res(500, "Failed to login")
    ELSE LoginSuccess(us, i, secret, t)

\* the responses login can give to a request, over the record findOne picks
LoginResponses(us, email, username, password, secret, saveFails, t) ==
    LET found == FindByEmailOrUsername(us, ToLowerCase(email), username)
    IN  IF email = NoEmail /\ username = NoName THEN {Res(400, "validation")}
        ELSE IF found = {} THEN {InvalidCredentials}
        ELSE {LoginFound(us, i, password, secret, saveFails, t) : i \in found}

Login(p, email, username, password, saveFails) ==
    /\ pc[p] = "idle"
    /\ LET req == [NoReq EXCEPT !.email = email, !.username = username,
                                !.password = password]
           found == FindByEmailOrUsername(users, ToLowerCase(email), username)
       IN  IF (email = NoEmail /\ username = NoName) \/ found = {}
           THEN /\ \E res \in LoginResponses(users, email, username, password,
                                              jwtSecret, saveFails, now) :
                      last' = Last(p, "login", req, res)
                /\ UNCHANGED <<users, now, jwtSecret, pc, local, held>>
           ELSE \E i \in found :
                  LET res == LoginFound(users, i, password, jwtSecret, saveFails, now)
                  IN  /\ last' = Last(p, "login", req, res)
                      /\ IF res.status = 200
                         THEN users' = [users EXCEPT ![i].lastLogin = now] /\ Keep(res)
                         ELSE UNCHANGED <<users, held>>
                      /\ UNCHANGED <<now, jwtSecret, pc, local>>

\* the client keeps or ignores the access token a refresh hands out
KeepOrDrop(res) == Keep(res) \/ UNCHANGED held

(* ------------------------------ refresh -------------------------------- *)
\* RefreshPayloadFor trusting the role claim of the presented token
RefreshPayloadFor_Stale(us, i, decoded) ==
    [id |-> i, email |-> us[i].email, role |-> decoded.role]

\* the claims of the access token refresh issues for record i
RefreshPayloadFor(us, i, decoded) == AccessPayload(us, i)

\* RefreshSuccess rotating the refresh token
RefreshSuccess_Rotating(us, i, decoded, secret, t) ==
    [Res(200, "Token refreshed successfully") EXCEPT
        !.accessToken = GenerateToken(AccessPayload(us, i), secret, t),
        !.refreshToken = GenerateRefreshToken(RefreshPayload(us, i), secret, t)]

\* the 200 body of refresh
RefreshSuccess(us, i, decoded, secret, t) ==
    [Res(200, "Token refreshed successfully") EXCEPT
        !.accessToken = GenerateToken(RefreshPayloadFor(us, i, decoded), secret, t)]

\* RefreshResponse answering a token of a missing record like a bad token
RefreshResponse_MissingIsInvalid(us, tok, secret, t) ==
    IF tok = NoToken THEN Res(400, "Refresh token is required")
    ELSE IF ~VerifyToken(tok, TRUE, secret, t).ok THEN Res(401, "Invalid refresh token")
    ELSE IF Decoded(tok).id \notin 1..Len(us) THEN Res(401, "Invalid refresh token")
    ELSE RefreshSuccess(us, Decoded(tok).id, Decoded(tok), secret, t)

\* the response of refresh to a request body {refreshToken: tok}
RefreshResponse(us, tok, secret, t) ==
    IF tok = NoToken THEN Res(400, "Refresh token is required")
    ELSE IF ~VerifyToken(tok, TRUE, secret, t).ok THEN Res(401, "Invalid refresh token")
    ELSE IF Decoded(tok).id \notin 1..Len(us) THEN Res(404, "User not found")
    ELSE RefreshSuccess(us, Decoded(tok).id, Decoded(tok), secret, t)

\* the bodies sent to refresh: the held tokens, none, garbage, a foreign one,
\* one for a record that is gone
RefreshInputs == {held.access, held.refresh, NoToken, GarbageToken, AlienToken, OrphanToken}

\* the tokens a client can present: those it holds, garbage, a foreign one
Presentable == {held.access, held.refresh, GarbageToken, AlienToken}

RefreshToken(p, tok) ==
    /\ pc[p] = "idle"
    /\ LET res == RefreshResponse(users, tok, jwtSecret, now)
       IN  /\ last' = Last(p, "refresh", [NoReq EXCEPT !.token = tok], res)
           /\ KeepOrDrop(res)
    /\ UNCHANGED <<users, now, jwtSecret, pc, local>>

(* ---------------------------- access guard ----------------------------- *)
\* the Authorization headers a client can send
Headers ==
    {[scheme |-> "", token |-> NoToken]}
      \cup {[scheme |-> "Bearer", token |-> tok] : tok \in Presentable}
    \cup {[scheme |-> "Basic", token |-> held.access]}

\* ExtractBearer taking the credential of any scheme
ExtractBearer_AnyScheme(header) == header.token

\* authHeader && authHeader.startsWith('Bearer ') ? authHeader.substring(7) : null
ExtractBearer(header) ==
    IF header.scheme = "Bearer" THEN header.token ELSE NoToken

\* Authenticate telling the caller why the token was refused
Authenticate_Telling(header, secret, t) ==
    LET tok == ExtractBearer(header)
        v == VerifyToken(tok, FALSE, secret, t)
    IN  IF tok = NoToken
        THEN [next |-> FALSE, res |-> Res(401, "Access token is required")]
        ELSE IF ~v.ok
        THEN [next |-> FALSE,
              res |-> Res(401, IF v.err = "TokenExpiredError" THEN "Token expired"
                               ELSE "Invalid or expired token")]
        ELSE [next |-> TRUE, res |-> [NoRes EXCEPT !.user = Decoded(tok)]]

\* Authenticate looking the holder up: inactive holders are rejected and the
\* context takes the role of the stored record
Authenticate_Fresh(header, secret, t) ==
    LET tok == ExtractBearer(header)
    IN  IF tok = NoToken
        THEN [next |-> FALSE, res |-> Res(401, "Access token is required")]
        ELSE IF ~VerifyToken(tok, FALSE, secret, t).ok
        THEN [next |-> FALSE, res |-> Res(401, "Invalid or expired token")]
        ELSE IF tok.id \notin UserIds \/ ~users[tok.id].isActive
        THEN [next |-> FALSE, res |-> Res(401, "Invalid or expired token")]
        ELSE [next |-> TRUE,
              res |-> [NoRes EXCEPT !.user = [Decoded(tok) EXCEPT
                                                 !.role = users[tok.id].role]]]

\* authenticate: the rejection it sends, or the context it attaches before next()
Authenticate(header, secret, t) ==
    LET tok == ExtractBearer(header)
    IN  IF tok = NoToken
        THEN [next |-> FALSE, res |-> Res(401, "Access token is required")]
        ELSE IF ~VerifyToken(tok, FALSE, secret, t).ok
        THEN [next |-> FALSE, res |-> Res(401, "Invalid or expired token")]
        ELSE [next |-> TRUE, res |-> [NoRes EXCEPT !.user = Decoded(tok)]]

\* Authorize letting every authenticated identity through
Authorize_NoRoleCheck(roles, ctx) ==
    IF ctx = NoCtx
    THEN [next |-> FALSE, res |-> Res(401, "Authentication required")]
    ELSE [next |-> TRUE, res |-> [NoRes EXCEPT !.user = ctx]]

\* authorize(roles): the rejection it sends, or next()
Authorize(roles, ctx) ==
    IF ctx = NoCtx
    THEN [next |-> FALSE, res |-> Res(401, "Authentication required")]
    ELSE IF ctx.role \notin roles
    THEN [next |-> FALSE,
          res |-> [Res(403, "You do not have permission to access this resource")
                     EXCEPT !.user = ctx]]
    ELSE [next |-> TRUE, res |-> [NoRes EXCEPT !.user = ctx]]

\* router.use(authenticate) followed by authorize(roles) on the admin routes
AdminGuard(roles, header, secret, t) ==
    LET a == Authenticate(header, secret, t)
    IN  IF a.next THEN Authorize(roles, a.res.user) ELSE a

\* OptionalAuth rejecting a token that fails verification
OptionalAuth_Rejecting(header, secret, t) ==
    LET tok == ExtractBearer(header)
    IN  IF tok = NoToken THEN [next |-> TRUE, res |-> NoRes]
        ELSE IF VerifyToken(tok, FALSE, secret, t).ok
        THEN [next |-> TRUE, res |-> [NoRes EXCEPT !.user = Decoded(tok)]]
        ELSE [next |-> FALSE, res |-> Res(401, "Invalid or expired token")]

\* optionalAuth: never rejects; attaches the context when the token verifies
OptionalAuth(header, secret, t) ==
    LET tok == ExtractBearer(header)
    IN  IF tok # NoToken /\ VerifyToken(tok, FALSE, secret, t).ok
        THEN [next |-> TRUE, res |-> [NoRes EXCEPT !.user = Decoded(tok)]]
        ELSE [next |-> TRUE, res |-> NoRes]

\* the middleware chains a route can be mounted behind
GuardModes == {"mandatory", "mandatory+role", "optional", "optional+role"}
RoleSets == {{}, {"admin"}, {"admin", "moderator"}}

\* the outcome of the chain of mode `mode` configured with the role set `roles`
GuardChain(mode, roles, header, secret, t) ==
    IF mode = "mandatory" THEN Authenticate(header, secret, t)
    ELSE IF mode = "mandatory+role" THEN AdminGuard(roles, header, secret, t)
    ELSE IF mode = "optional" THEN OptionalAuth(header, secret, t)
    ELSE Authorize(roles, OptionalAuth(header, secret, t).res.user)

\* one invocation of a middleware, step by step: the stages it passes, how
\* often it calls next() and the statuses of the responses it sends
Run(stages, nexts, sends) == [stages |-> stages, nexts |-> nexts, sends |-> sends]

\* AuthenticateRun without the return after the first rejection: verifyToken
\* then throws on the missing token and the catch block answers again
AuthenticateRun_FallThrough(header, secret, t) ==
    LET tok == ExtractBearer(header)
    IN  IF tok = NoToken THEN Run(<<"NoToken">>, 0, <<401, 401>>)
        ELSE IF ~VerifyToken(tok, FALSE, secret, t).ok
        THEN Run(<<"NoToken", "Extracted">>, 0, <<401>>)
        ELSE Run(<<"NoToken", "Extracted", "Verified">>, 1, <<>>)

\* authenticate: no token -> 401 and return; verifyToken throws -> the catch
\* block sends 401; otherwise req.user is set and next() is called
AuthenticateRun(header, secret, t) ==
    LET tok == ExtractBearer(header)
    IN  IF tok = NoToken THEN Run(<<"NoToken">>, 0, <<401>>)
        ELSE IF ~VerifyToken(tok, FALSE, secret, t).ok
        THEN Run(<<"NoToken", "Extracted">>, 0, <<401>>)
        ELSE Run(<<"NoToken", "Extracted", "Verified">>, 1, <<>>)

\* authorize(roles): no req.user -> 401 and return; role not included -> 403
\* and return; otherwise next()
AuthorizeRun(roles, ctx) ==
    IF ctx = NoCtx THEN Run(<<>>, 0, <<401>>)
    ELSE IF ctx.role \notin roles THEN Run(<<>>, 0, <<403>>)
    ELSE Run(<<"Authorized">>, 1, <<>>)

\* optionalAuth: next() after the try body, or next() from the catch block
\* when verifyToken threw; it sends nothing
OptionalAuthRun(header, secret, t) ==
    LET tok == ExtractBearer(header)
    IN  IF tok = NoToken THEN Run(<<"NoToken">>, 1, <<>>)
        ELSE IF ~VerifyToken(tok, FALSE, secret, t).ok
        THEN Run(<<"NoToken", "Extracted">>, 1, <<>>)
        ELSE Run(<<"NoToken", "Extracted", "Verified">>, 1, <<>>)

\* the middleware invocations of one request, in order: a middleware runs
\* when the one before it called next()
ChainRuns(mode, roles, header, secret, t) ==
    LET first == IF mode \in {"mandatory", "mandatory+role"}
                 THEN AuthenticateRun(header, secret, t)
                 ELSE OptionalAuthRun(header, secret, t)
        ctx == IF mode = "mandatory+role" THEN Authenticate(header, secret, t).res.user
               ELSE OptionalAuth(header, secret, t).res.user
    IN  IF mode \in {"mandatory+role", "optional+role"} /\ first.nexts > 0
        THEN <<first, AuthorizeRun(roles, ctx)>>
        ELSE <<first>>

\* a handler's response, marked as given by the handler under context ctx
Handled(res, ctx) == [res EXCEPT !.user = ctx, !.handler = TRUE]

HeaderReq(header) == [NoReq EXCEPT !.scheme = header.scheme, !.token = header.token]

(* ------------------------------ /auth/me ------------------------------- *)
\* getCurrentUser under the attached context
GetCurrentUser(us, ctx) ==
    IF ctx.id = NoId THEN Res(401, "Unauthorized")
    ELSE IF ctx.id \notin 1..Len(us) THEN Res(404, "User not found")
    ELSE Res(200, "me")

\* GET /api/auth/me: authenticate, getCurrentUser
GetMe(p, header) ==
    /\ pc[p] = "idle"
    /\ LET a == Authenticate(header, jwtSecret, now)
       IN  last' = Last(p, "me", HeaderReq(header),
                        IF a.next THEN Handled(GetCurrentUser(users, a.res.user), a.res.user)
                        ELSE a.res)
    /\ UNCHANGED <<users, now, jwtSecret, pc, local, held>>

(* --------------------------- a guarded route ---------------------------- *)
\* the Authorization headers tried against a guarded route
GuardHeaders ==
    Headers \cup {[scheme |-> "Bearer", token |-> tok] :
                     tok \in {WrongIssuerToken, WrongAudienceToken}}

\* router.get(path, <chain>, handler): the chain, then a handler answering 200
Guard(p, mode, roles, header) ==
    /\ pc[p] = "idle"
    /\ LET g == GuardChain(mode, roles, header, jwtSecret, now)
           req == [HeaderReq(header) EXCEPT !.mode = mode, !.roles = roles]
       IN  last' = Last(p, "guard", req,
                        IF g.next THEN Handled(Res(200, "ok"), g.res.user) ELSE g.res)
    /\ UNCHANGED <<users, now, jwtSecret, pc, local, held>>

(* ------------------------- PUT /users/:id/role -------------------------- *)
RoleInputs == Roles \cup {"superuser"}
\* JSON null sent as the role
NullRole == "<null>"

\* the enum validator of the schema, run as an update validator: it lets
\* null through and refuses every other value outside the enumeration
EnumValid(role) == role = NullRole \/ role \in Roles

\* updateUserRole: findByIdAndUpdate(id, {role}, {runValidators: true})
UpdateUserRole(p, header, id, role) ==
    /\ pc[p] = "idle"
    /\ LET g == AdminGuard({"admin"}, header, jwtSecret, now)
           req == [HeaderReq(header) EXCEPT !.id = id, !.role = role]
       IN  IF ~g.next
           THEN /\ last' = Last(p, "role", req, g.res)
                /\ UNCHANGED users
           ELSE IF ~EnumValid(role)
           THEN /\ last' = Last(p, "role", req,
                                Handled(Res(500, "Failed to update user role"), g.res.user))
                /\ UNCHANGED users
           ELSE IF id \notin UserIds
           THEN /\ last' = Last(p, "role", req,
                                Handled(Res(404, "User not found"), g.res.user))
                /\ UNCHANGED users
           ELSE /\ users' = [users EXCEPT ![id].role = role]
                /\ last' = Last(p, "role", req,
                                Handled(Res(200, "User role updated successfully"),
                                        g.res.user))
    /\ UNCHANGED <<now, jwtSecret, pc, local, held>>

(* ------------------------ PUT /users/:id/status ------------------------- *)
\* toggleUserStatus up to the await of User.findById (guard, lookup, 404)
ToggleBegin(p, header, id) ==
    /\ pc[p] = "idle"
    /\ LET g == AdminGuard({"admin"}, header, jwtSecret, now)
           req == [HeaderReq(header) EXCEPT !.id = id]
       IN  IF ~g.next
           THEN /\ last' = Last(p, "status", req, g.res)
                /\ UNCHANGED <<pc, local>>
           ELSE IF id \notin UserIds
           THEN /\ last' = Last(p, "status", req,
                                Handled(Res(404, "User not found"), g.res.user))
                /\ UNCHANGED <<pc, local>>
           ELSE /\ pc' = [pc EXCEPT ![p] = "toggle_save"]
                /\ local' = [local EXCEPT ![p] =
                                [NoLocal EXCEPT !.id = id, !.isActive = users[id].isActive,
                                                !.scheme = header.scheme,
                                                !.token = header.token]]
                /\ UNCHANGED last
    /\ UNCHANGED <<users, now, jwtSecret, held>>

\* toggleUserStatus from user.isActive = !user.isActive to the response
ToggleSave(p) ==
    /\ pc[p] = "toggle_save"
    /\ pc' = [pc EXCEPT ![p] = "idle"]
    /\ local' = [local EXCEPT ![p] = NoLocal]
    /\ LET l == local[p]
       IN  /\ users' = [users EXCEPT ![l.id].isActive = ~l.isActive]
           /\ last' = Last(p, "status", [HeaderReq(l) EXCEPT !.id = l.id],
                           Handled(Res(200, IF ~l.isActive THEN "User activated successfully"
                                            ELSE "User deactivated successfully"),
                                   Decoded(l.token)))
    /\ UNCHANGED <<now, jwtSecret, held>>

(* ----------------------- GET / PUT /users/profile ----------------------- *)
\* the bodies tried on /profile: one field, at the top level of the body or
\* inside a $set update operator
ProfileBodies ==
    {[field |-> "", value |-> "", operator |-> FALSE],
     [field |-> "username", value |-> "alice2", operator |-> FALSE],
     [field |-> "username", value |-> "root", operator |-> FALSE],
     [field |-> "password", value |-> OtherPassword, operator |-> FALSE],
     [field |-> "password", value |-> OtherPassword, operator |-> TRUE],
     [field |-> "role", value |-> "admin", operator |-> FALSE],
     [field |-> "role", value |-> "admin", operator |-> TRUE]}

\* delete updates.password / role / isActive / isEmailVerified / email: the
\* top-level keys only
StripProtected(body) ==
    IF ~body.operator /\ body.field \in {"password", "role", "isActive",
                                          "isEmailVerified", "email"}
    THEN [field |-> "", value |-> "", operator |-> FALSE]
    ELSE body

\* findByIdAndUpdate(id, updates, {runValidators: true}) on record u: the
\* updated record; no save hook runs
ApplyUpdate(u, updates) ==
    IF updates.field = "username" THEN [u EXCEPT !.username = updates.value]
    ELSE IF updates.field = "password" THEN [u EXCEPT !.password = Plain(updates.value)]
    ELSE IF updates.field = "role" THEN [u EXCEPT !.role = updates.value]
    ELSE u

\* the update validators (enum on role, minlength on password) refuse the update
UpdateInvalid(updates) ==
    \/ (updates.field = "role" /\ ~EnumValid(updates.value))
    \/ (updates.field = "password" /\ ~MinLength(updates.value))

\* the unique index on username refuses the update of record id
UpdateDuplicate(us, id, updates) ==
    /\ updates.field = "username"
    /\ \E j \in 1..Len(us) : j # id /\ us[j].username = updates.value

ProfileReq(method, header, body) ==
    [HeaderReq(header) EXCEPT
        !.method = method, !.operator = body.operator,
        !.username = IF body.field = "username" THEN body.value ELSE NoName,
        !.password = IF body.field = "password" THEN body.value ELSE NoPassword,
        !.role = IF body.field = "role" THEN body.value ELSE NoRole]

\* router.get('/profile', updateProfile) and router.put('/profile',
\* validateUpdateProfile, updateProfile), behind router.use(authenticate)
UpdateProfile(p, method, header, body) ==
    /\ pc[p] = "idle"
    /\ LET a == Authenticate(header, jwtSecret, now)
           req == ProfileReq(method, header, body)
           id == a.res.user.id
           updates == StripProtected(body)
       IN  IF ~a.next
           THEN /\ last' = Last(p, "profile", req, a.res)
                /\ UNCHANGED users
           ELSE IF UpdateInvalid(updates)
           THEN /\ last' = Last(p, "profile", req,
                                Handled(Res(500, "Failed to update profile"), a.res.user))
                /\ UNCHANGED users
           ELSE IF id \notin UserIds
           THEN /\ last' = Last(p, "profile", req,
                                Handled(Res(404, "User not found"), a.res.user))
                /\ UNCHANGED users
           ELSE IF UpdateDuplicate(users, id, updates)
           THEN /\ last' = Last(p, "profile", req,
                                Handled(Res(500, "Failed to update profile"), a.res.user))
                /\ UNCHANGED users
           ELSE /\ users' = [users EXCEPT ![id] = ApplyUpdate(users[id], updates)]
                /\ last' = Last(p, "profile", req,
                                Handled(Res(200, "Profile updated successfully"),
                                        a.res.user))
    /\ UNCHANGED <<now, jwtSecret, pc, local, held>>

(* -------------------------- PUT /users/password ------------------------- *)
\* ChangePassword without the comparison against the stored credential
ChangePassword_Unproven(p, header, currentPassword, newPassword, salt) ==
    /\ pc[p] = "idle"
    /\ LET a == Authenticate(header, jwtSecret, now)
           req == [HeaderReq(header) EXCEPT !.password = currentPassword,
                                           !.newPassword = newPassword]
           id == a.res.user.id
       IN  IF ~a.next
           THEN /\ last' = Last(p, "password", req, a.res)
                /\ UNCHANGED users
           ELSE IF id \notin UserIds
           THEN /\ last' = Last(p, "password", req,
                                Handled(Res(404, "User not found"), a.res.user))
                /\ UNCHANGED users
           ELSE IF ~MinLength(newPassword)
           THEN /\ last' = Last(p, "password", req,
                                Handled(Res(500, "Failed to change password"), a.res.user))
                /\ UNCHANGED users
           ELSE /\ users' = [users EXCEPT ![id].password = Hash(newPassword, salt)]
                /\ last' = Last(p, "password", req,
                                Handled(Res(200, "Password changed successfully"),
                                        a.res.user))
    /\ UNCHANGED <<now, jwtSecret, pc, local, held>>

\* changePassword; validateChangePassword runs before it but the handler
\* never reads validationResult
ChangePassword(p, header, currentPassword, newPassword, salt) ==
    /\ pc[p] = "idle"
    /\ LET a == Authenticate(header, jwtSecret, now)
           req == [HeaderReq(header) EXCEPT !.password = currentPassword,
                                           !.newPassword = newPassword]
           id == a.res.user.id
       IN  IF ~a.next
           THEN /\ last' = Last(p, "password", req, a.res)
                /\ UNCHANGED users
           ELSE IF id \notin UserIds
           THEN /\ last' = Last(p, "password", req,
                                Handled(Res(404, "User not found"), a.res.user))
                /\ UNCHANGED users
           ELSE IF ~ComparePassword(currentPassword, users[id].password)
           THEN /\ last' = Last(p, "password", req,
                                Handled(Res(401, "Current password is incorrect"),
                                        a.res.user))
                /\ UNCHANGED users
           ELSE IF ~MinLength(newPassword)
           THEN /\ last' = Last(p, "password", req,
                                Handled(Res(500, "Failed to change password"), a.res.user))
                /\ UNCHANGED users
           ELSE /\ users' = [users EXCEPT ![id].password = Hash(newPassword, salt)]
                /\ last' = Last(p, "password", req,
                                Handled(Res(200, "Password changed successfully"),
                                        a.res.user))
    /\ UNCHANGED <<now, jwtSecret, pc, local, held>>

(* ------------------------- DELETE /users/account ------------------------ *)
\* DeleteAccount without the comparison against the stored credential
DeleteAccount_AnyPassword(p, header, password) ==
    /\ pc[p] = "idle"
    /\ LET a == Authenticate(header, jwtSecret, now)
           req == [HeaderReq(header) EXCEPT !.password = password]
           id == a.res.user.id
       IN  IF ~a.next
           THEN /\ last' = Last(p, "account", req, a.res)
                /\ UNCHANGED users
           ELSE IF id \notin UserIds
           THEN /\ last' = Last(p, "account", req,
                                Handled(Res(404, "User not found"), a.res.user))
                /\ UNCHANGED users
           ELSE /\ users' = [users EXCEPT ![id].isActive = FALSE]
                /\ last' = Last(p, "account", req,
                                Handled(Res(200, "Account deleted successfully"),
                                        a.res.user))
    /\ UNCHANGED <<now, jwtSecret, pc, local, held>>

\* deleteAccount: the soft delete
DeleteAccount(p, header, password) ==
    /\ pc[p] = "idle"
    /\ LET a == Authenticate(header, jwtSecret, now)
           req == [HeaderReq(header) EXCEPT !.password = password]
           id == a.res.user.id
       IN  IF ~a.next
           THEN /\ last' = Last(p, "account", req, a.res)
                /\ UNCHANGED users
           ELSE IF id \notin UserIds
           THEN /\ last' = Last(p, "account", req,
                                Handled(Res(404, "User not found"), a.res.user))
                /\ UNCHANGED users
           ELSE IF ~ComparePassword(password, users[id].password)
           THEN /\ last' = Last(p, "account", req,
                                Handled(Res(401, "Password is incorrect"), a.res.user))
                /\ UNCHANGED users
           ELSE /\ users' = [users EXCEPT ![id].isActive = FALSE]
                /\ last' = Last(p, "account", req,
                                Handled(Res(200, "Account deleted successfully"),
                                        a.res.user))
    /\ UNCHANGED <<now, jwtSecret, pc, local, held>>

(* ----------------------- GET /users, GET /users/:id --------------------- *)
\* GetAllUsers behind authenticate alone
GetAllUsers_AnyRole(p, header) ==
    /\ pc[p] = "idle"
    /\ LET g == Authenticate(header, jwtSecret, now)
       IN  last' = Last(p, "list", HeaderReq(header),
                        IF g.next THEN Handled(Res(200, "users"), g.res.user) ELSE g.res)
    /\ UNCHANGED <<users, now, jwtSecret, pc, local, held>>

\* getAllUsers behind authorize(['admin'])
GetAllUsers(p, header) ==
    /\ pc[p] = "idle"
    /\ LET g == AdminGuard({"admin"}, header, jwtSecret, now)
       IN  last' = Last(p, "list", HeaderReq(header),
                        IF g.next THEN Handled(Res(200, "users"), g.res.user) ELSE g.res)
    /\ UNCHANGED <<users, now, jwtSecret, pc, local, held>>

\* getUserById behind authorize(['admin', 'moderator'])
GetUserById(p, header, id) ==
    /\ pc[p] = "idle"
    /\ LET g == AdminGuard({"admin", "moderator"}, header, jwtSecret, now)
       IN  last' = Last(p, "user", [HeaderReq(header) EXCEPT !.id = id],
                        IF ~g.next THEN g.res
                        ELSE IF id \notin UserIds
                        THEN Handled(Res(404, "User not found"), g.res.user)
                        ELSE Handled(Res(200, "user"), g.res.user))
    /\ UNCHANGED <<users, now, jwtSecret, pc, local, held>>

(* --------------------------- POST /auth/logout -------------------------- *)
\* Logout replacing the signing key, which revokes every token issued so far
Logout_RotatingKey(p, header) ==
    /\ pc[p] = "idle"
    /\ LET a == Authenticate(header, jwtSecret, now)
       IN  /\ last' = Last(p, "logout", HeaderReq(header),
                           IF a.next
                           THEN Handled(Res(200, "Logged out successfully"), a.res.user)
                           ELSE a.res)
           /\ jwtSecret' = IF a.next THEN "k3" ELSE jwtSecret
    /\ UNCHANGED <<users, now, pc, local, held>>

\* logout behind authenticate: answers 200 and touches nothing
Logout(p, header) ==
    /\ pc[p] = "idle"
    /\ LET a == Authenticate(header, jwtSecret, now)
       IN  last' = Last(p, "logout", HeaderReq(header),
                        IF a.next
                        THEN Handled(Res(200, "Logged out successfully"), a.res.user)
                        ELSE a.res)
    /\ UNCHANGED <<users, now, jwtSecret, pc, local, held>>

(* ------------------------ the earlier login module ---------------------- *)
\* comparePassword of the earlier User model: bcrypt.compare, uncaught
LegacyComparePassword(candidate, stored) == BcryptCompare(candidate, stored)

\* generateToken of utils/auth: {id, role}, one hour, no issuer or audience
LegacyGenerateToken(us, i, secret, t) ==
    [id |-> i, email |-> NoEmail, role |-> us[i].role, exp |-> t + AccessTTL,
     iss |-> "", aud |-> "", key |-> secret]

\* the response of the earlier login handler
LegacyLoginResponse(us, email, password, secret, t) ==
    LET found == {i \in 1..Len(us) : us[i].email = email}
    IN  IF email = NoEmail \/ password = NoPassword
        THEN {Res(400, "Email and password are required")}
        ELSE IF found = {} THEN {Res(401, "Invalid email or password")}
        ELSE {LET c == LegacyComparePassword(password, us[i].password)
              IN  IF c = "throw" THEN Res(500, "Server error during login")
                  ELSE IF c = "false" THEN Res(401, "Invalid email or password")
                  ELSE IF secret = NoSecret THEN Res(500, "Server error during login")
                  ELSE [Res(200, "Login successful") EXCEPT
                           !.accessToken = LegacyGenerateToken(us, i, secret, t)]
              : i \in found}

LegacyLogin(p, email, password) ==
    /\ pc[p] = "idle"
    /\ \E res \in LegacyLoginResponse(users, email, password, jwtSecret, now) :
          last' = Last(p, "legacy_login",
                       [NoReq EXCEPT !.email = email, !.password = password], res)
    /\ UNCHANGED <<users, now, jwtSecret, pc, local, held>>

(* ------------------------ the earlier route guard ----------------------- *)
\* req.headers.authorization?.split(' ')[1]: the second word of the header,
\* whatever the first word is
SplitSecond(header) == IF header.scheme = "" THEN NoToken ELSE header.token

\* jwt.verify(token, secret): signature and expiry, no issuer or audience
LegacyVerify(tok, secret, t) ==
    tok.key \notin {"malformed", "none"} /\ tok.key = secret /\ t < tok.exp

\* protectRoute: the rejection it sends, or next() with req.user set
ProtectRoute(header, secret, t) ==
    LET tok == SplitSecond(header)
    IN  IF tok = NoToken
        THEN [next |-> FALSE, res |-> Res(401, "No token provided, authorization denied")]
        ELSE IF secret = NoSecret
        THEN [next |-> FALSE, res |-> Res(500, "Server configuration error")]
        ELSE IF ~LegacyVerify(tok, secret, t)
        THEN [next |-> FALSE, res |-> Res(401, "Invalid or expired token")]
        ELSE [next |-> TRUE, res |-> [NoRes EXCEPT !.user = Decoded(tok)]]

\* GET /protected: protectRoute, then the handler answering 200
GetProtected(p, header) ==
    /\ pc[p] = "idle"
    /\ LET g == ProtectRoute(header, jwtSecret, now)
       IN  last' = Last(p, "protected", HeaderReq(header),
                        IF g.next
                        THEN Handled(Res(200, "This is a protected route!"), g.res.user)
                        ELSE g.res)
    /\ UNCHANGED <<users, now, jwtSecret, pc, local, held>>

(* ---------------------------- specification ---------------------------- *)
\* the admin requests tried: no header, or the held access token as bearer
NoHeader == [scheme |-> "", token |-> NoToken]
BearerAccess == [scheme |-> "Bearer", token |-> held.access]
TargetIds == {1, 2}

Register(p) ==
    \/ \E b \in RegisterBodies : RegisterBegin(p, b[1], b[2], b[3])
    \/ \E salt \in Salts, saveFails \in BOOLEAN : RegisterCreate(p, salt, saveFails)

Toggle(p) ==
    \/ ToggleBegin(p, NoHeader, 1)
    \/ \E id \in TargetIds : ToggleBegin(p, BearerAccess, id)
    \/ ToggleSave(p)

Request(p) ==
    \/ Register(p)
    \/ \E ident \in LoginIdentifiers, pw \in LoginPasswords, saveFails \in BOOLEAN :
          Login(p, ident[1], ident[2], pw, saveFails)
    \/ \E tok \in RefreshInputs : RefreshToken(p, tok)
    \/ \E h \in Headers : GetMe(p, h)
    \/ UpdateUserRole(p, NoHeader, 1, "user")
    \/ \E id \in TargetIds, r \in RoleInputs : UpdateUserRole(p, BearerAccess, id, r)
    \/ Toggle(p)

\* requests served one after the other, the clock advancing in between
Next == Tick \/ Request("p1")

Spec == Init /\ [][Next]_vars

\* register calls of two clients interleaving at their awaits, the store healthy
RaceBodies ==
    {<<"A@x.com", "alice", "Abcdefg1">>, <<"a@x.com", "bob", "Abcdefg1">>,
     <<"b@x.com", "alice", "Abcdefg1">>, <<"b@x.com", "bob", "Abcdefg1">>}

InitRace == Init /\ jwtSecret = Secret

NextRace ==
    \/ \E p \in Procs, b \in RaceBodies : RegisterBegin(p, b[1], b[2], b[3])
    \/ \E p \in Procs, salt \in Salts : RegisterCreate(p, salt, FALSE)

SpecRace == InitRace /\ [][NextRace]_vars

\* calls to guarded routes, between the requests that issue tokens and those
\* that change the role or the status of their holders
NextGuard ==
    \/ Tick
    \/ RegisterBegin("p1", "A@x.com", "alice", GoodPassword)
    \/ RegisterCreate("p1", "s1", FALSE)
    \/ \E ident \in {<<"root@x.com", NoName>>, <<NoEmail, "alice">>} :
          Login("p1", ident[1], ident[2], GoodPassword, FALSE)
    \/ \E id \in TargetIds, r \in {"user", "admin"} :
          UpdateUserRole("p1", BearerAccess, id, r)
    \/ \E id \in TargetIds : ToggleBegin("p1", BearerAccess, id)
    \/ ToggleSave("p1")
    \/ \E mode \in {"mandatory", "optional"}, h \in GuardHeaders :
          Guard("p1", mode, {}, h)
    \/ \E mode \in {"mandatory+role", "optional+role"}, roles \in RoleSets,
          h \in GuardHeaders :
          Guard("p1", mode, roles, h)

SpecGuard == Init /\ [][NextGuard]_vars

\* one account holder using the self-service routes of /api/users, the logins
\* and logout; being the admin, the holder can also change the own role and
\* reactivate the own account while the token lasts; the clock stands still
AccountHeaders == {NoHeader, BearerAccess}
AccountPasswords == {GoodPassword, OtherPassword}

\* the Authorization headers tried against GET /protected
ProtectedHeaders ==
    {NoHeader, BearerAccess, [scheme |-> "Basic", token |-> held.access],
     [scheme |-> "Bearer", token |-> GarbageToken]}

NextAccount ==
    \/ \E pw \in AccountPasswords \cup {NonStringPassword} :
          Login("p1", "root@x.com", NoName, pw, FALSE)
    \/ \E pw \in {GoodPassword, NonStringPassword} : LegacyLogin("p1", "root@x.com", pw)
    \/ \E method \in {"GET", "PUT"}, h \in AccountHeaders, b \in ProfileBodies :
          UpdateProfile("p1", method, h, b)
    \/ \E h \in AccountHeaders, cur \in AccountPasswords,
          new \in AccountPasswords \cup {WeakPassword, ShortPassword}, salt \in ChangeSalts :
          ChangePassword("p1", h, cur, new, salt)
    \/ \E h \in AccountHeaders, pw \in AccountPasswords : DeleteAccount("p1", h, pw)
    \/ \E h \in AccountHeaders : Logout("p1", h)
    \/ \E h \in ProtectedHeaders : GetProtected("p1", h)
    \/ \E r \in {"moderator", "superuser", NullRole} :
          UpdateUserRole("p1", BearerAccess, 1, r)
    \/ ToggleBegin("p1", BearerAccess, 1)
    \/ ToggleSave("p1")

SpecAccount == Init /\ [][NextAccount]_vars

\* every route of /api/users called by an admin and by a registered user, with
\* and without a token
RouteHeaders == {NoHeader, BearerAccess, [scheme |-> "Bearer", token |-> GarbageToken]}

NextRoutes ==
    \/ Tick
    \/ RegisterBegin("p1", "A@x.com", "alice", GoodPassword)
    \/ RegisterCreate("p1", "s1", FALSE)
    \/ \E ident \in {<<"root@x.com", NoName>>, <<NoEmail, "alice">>} :
          Login("p1", ident[1], ident[2], GoodPassword, FALSE)
    \/ \E h \in RouteHeaders :
          \/ UpdateProfile("p1", "PUT", h, [field |-> "username", value |-> "alice2",
                                           operator |-> FALSE])
          \/ ChangePassword("p1", h, GoodPassword, OtherPassword, "s2")
          \/ DeleteAccount("p1", h, GoodPassword)
          \/ GetAllUsers("p1", h)
          \/ \E id \in TargetIds : GetUserById("p1", h, id)
          \/ UpdateUserRole("p1", h, 2, "moderator")
          \/ ToggleBegin("p1", h, 2)
    \/ ToggleSave("p1")

SpecRoutes == Init /\ [][NextRoutes]_vars

\* two status requests of the admin in flight at once, each suspended
\* between its findById and its save
NextToggle ==
    \/ Tick
    \/ Login("p1", "root@x.com", NoName, GoodPassword, FALSE)
    \/ \E p \in Procs, h \in {NoHeader, BearerAccess} : ToggleBegin(p, h, 1)
    \/ \E p \in Procs : ToggleSave(p)

SpecToggle == InitRace /\ [][NextToggle]_vars

(* ------------------------------- claims -------------------------------- *)
\* a token this server issued that has not expired yet
LiveToken(tok) ==
    /\ jwtSecret # NoSecret /\ tok.key = jwtSecret /\ now < tok.exp
    /\ tok.iss = Issuer /\ tok.aud = Audience

\* C1: the access guard rejects every validly signed, unexpired refresh token:
\* a request carrying one as the bearer token never reaches the handler and
\* gets no authenticated context attached.
C1_GuardRejectsRefreshToken ==
    (/\ last.op = "me"
     /\ last.req.scheme = "Bearer"
     /\ IsRefreshShape(last.req.token)
     /\ LiveToken(last.req.token))
    => (~last.res.handler /\ last.res.user = NoCtx)

\* C2: refresh called with a validly signed, unexpired access token fails and
\* issues no new access token.
C2_RefreshRejectsAccessToken ==
    (/\ last.op = "refresh"
     /\ IsAccessShape(last.req.token)
     /\ LiveToken(last.req.token))
    => (last.res.status # 200 /\ last.res.accessToken = NoToken)

\* record i is the one the login body of request req names
Selects(req, i) ==
    \/ (req.email # NoEmail /\ users[i].email = ToLowerCase(req.email))
    \/ (req.username # NoName /\ users[i].username = req.username)

WrongSecret(req, i) == ~ComparePassword(req.password, users[i].password)

\* what login answers to an identifier that matches no record
UnknownIdentifierResponses(req) ==
    LoginResponses(users, "nobody@x.com", NoName, req.password, jwtSecret, FALSE, now)

NoTokens(res) == res.accessToken = NoToken /\ res.refreshToken = NoToken

LoginStep ==
    /\ last'.op = "login"
    /\ \E ident \in LoginIdentifiers, pw \in LoginPasswords, saveFails \in BOOLEAN :
          Login("p1", ident[1], ident[2], pw, saveFails)

\* C3 as stated: for every stored record, whatever its state, login with its
\* identifier and a wrong secret answers exactly as login with an identifier
\* that matches no record.
C3_WrongSecretLikeUnknown ==
    \A i \in UserIds :
        (last.op = "login" /\ Selects(last.req, i) /\ WrongSecret(last.req, i))
        => last.res \in UnknownIdentifierResponses(last.req)

\* C3 amended: for every ACTIVE stored record, login with its identifier and a
\* wrong secret answers exactly as login with an identifier that matches no
\* record (an inactive record answers account-deactivated before the secret
\* is looked at).
C3_ActiveWrongSecretLikeUnknown ==
    \A i \in UserIds :
        (/\ last.op = "login" /\ Selects(last.req, i) /\ WrongSecret(last.req, i)
         /\ users[i].isActive)
        => last.res \in UnknownIdentifierResponses(last.req)

C3_Witness ==
    \E i \in UserIds :
        /\ last.op = "login" /\ Selects(last.req, i) /\ WrongSecret(last.req, i)
        /\ users[i].isActive
        /\ last.res = InvalidCredentials

\* C4: login against an inactive record with the correct secret answers the
\* account-deactivated error (not invalid-credentials), issues no token and
\* leaves the record's lastLogin unchanged.
C4_InactiveLogin ==
    [][\A i \in UserIds :
          (/\ last'.op = "login"
           /\ Selects(last'.req, i)
           /\ ~users[i].isActive
           /\ ~WrongSecret(last'.req, i)
           /\ LoginStep)
          => (/\ last'.res = AccountDeactivated
              /\ last'.res # InvalidCredentials
              /\ NoTokens(last'.res)
              /\ held' = held
              /\ users'[i].lastLogin = users[i].lastLogin)]_vars

C4_Witness ==
    \E i \in UserIds :
        /\ last.op = "login" /\ Selects(last.req, i) /\ ~WrongSecret(last.req, i)
        /\ ~users[i].isActive
        /\ last.res = AccountDeactivated

\* C5: with a correct identifier and secret on an active account (and a
\* signing key configured) login answers success with the token pair, also
\* when persisting lastLogin fails.
C5_LoginBestEffort ==
    \A i \in UserIds :
        (/\ last.op = "login" /\ Selects(last.req, i) /\ ~WrongSecret(last.req, i)
         /\ users[i].isActive
         /\ jwtSecret # NoSecret)
        => (/\ last.res.status = 200
            /\ last.res.accessToken # NoToken
            /\ last.res.refreshToken # NoToken)

RefreshStep ==
    /\ last'.op = "refresh"
    /\ \E tok \in RefreshInputs : RefreshToken("p1", tok)

\* C6: a successful refresh issues the new access token from the record as it
\* is at refresh time: its claims are the record's id, email and current role.
C6_RefreshUsesCurrentRole ==
    [][(RefreshStep /\ last'.res.status = 200)
       => LET id == last'.req.token.id
          IN  /\ id \in UserIds
              /\ Decoded(last'.res.accessToken) =
                    [id |-> id, email |-> users[id].email, role |-> users[id].role]]_vars

\* the client still holds an older access token of the same subject whose role
\* claim differs from the one just issued: the role changed in between
C6_Witness ==
    /\ last.op = "refresh" /\ last.res.status = 200
    /\ IsRefreshShape(last.req.token)
    /\ IsAccessShape(held.access)
    /\ held.access.id = last.req.token.id
    /\ held.access.role # last.res.accessToken.role
    /\ last.res.accessToken.role = users[last.req.token.id].role

\* C7: refresh does not rotate: a successful refresh hands out an access token
\* and no refresh token, and a refresh token stays acceptable to refresh, however
\* many refreshes it was used for, as long as it has not expired.
C7_NoRotation ==
    /\ (last.op = "refresh" /\ last.res.status = 200)
       => (last.res.refreshToken = NoToken /\ last.res.accessToken # NoToken)
    /\ (last.op = "refresh" /\ last.res.status = 200 /\ LiveToken(last.req.token))
       => RefreshResponse(users, last.req.token, jwtSecret, now).status = 200
    /\ (IsRefreshShape(held.refresh) /\ LiveToken(held.refresh))
       => RefreshResponse(users, held.refresh, jwtSecret, now).status = 200

C7_Witness ==
    /\ last.op = "refresh" /\ last.res.status = 200
    /\ IsRefreshShape(last.req.token)
    /\ held.refresh = last.req.token
    /\ held.access = last.res.accessToken
    /\ LiveToken(held.refresh)
    /\ now > held.refresh.exp - RefreshTTL

\* an existing record owns the email or the username of register body b
Owned(b) ==
    \E i \in UserIds : users[i].email = ToLowerCase(b[1]) \/ users[i].username = b[2]

\* C8: register with a valid body whose email or username an existing record
\* owns answers 409, creates no record, issues no token and leaves the store
\* unchanged.
C8_RegisterConflict ==
    [][\A b \in RegisterBodies :
          (/\ ValidPassword(b[3])
           /\ Owned(b)
           /\ pc["p1"] = "idle"
           /\ now' = now
           /\ (last'.op = "register" \/ pc'["p1"] = "register_create")
           /\ RegisterBegin("p1", b[1], b[2], b[3]))
          => (/\ last'.op = "register"
              /\ last'.res.status = 409
              /\ NoTokens(last'.res)
              /\ users' = users
              /\ held' = held
              /\ pc' = pc)]_vars

C8_Witness ==
    /\ last.op = "register"
    /\ last.res = Res(409, ConflictMessage("username"))
    /\ Owned(<<last.req.email, last.req.username>>)

\* C9: when register calls with the same email or username interleave, at most
\* one record with that email/username exists and the call that does not
\* create it fails with the conflict error (409).
C9_RaceLoserGetsConflict ==
    /\ \A i, j \in UserIds :
          i # j => (users[i].email # users[j].email
                    /\ users[i].username # users[j].username)
    /\ (last.op = "register" /\ last.res.status # 201) => last.res.status = 409

RegisterCreateStep ==
    /\ last'.op = "register"
    /\ \E salt \in Salts, saveFails \in BOOLEAN : RegisterCreate("p1", salt, saveFails)

\* C10: a successful register creates exactly one record, with role user and
\* isActive true, for an email and username no record owned, and returns an
\* access token that verifies to that record's id, email and role user,
\* together with a refresh token for that id.
C10_RegisterSuccess ==
    [][(RegisterCreateStep /\ last'.res.status = 201)
       => LET n == Len(users')
              at == last'.res.accessToken
              rt == last'.res.refreshToken
          IN  /\ n = Len(users) + 1
              /\ SubSeq(users', 1, n - 1) = users
              /\ ~Owned(<<last'.req.email, last'.req.username>>)
              /\ users'[n].email = ToLowerCase(last'.req.email)
              /\ users'[n].username = last'.req.username
              /\ users'[n].role = "user"
              /\ users'[n].isActive
              /\ VerifyToken(at, FALSE, jwtSecret, now).ok
              /\ Decoded(at) = [id |-> n, email |-> users'[n].email, role |-> "user"]
              /\ rt # NoToken
              /\ VerifyToken(rt, TRUE, jwtSecret, now).ok
              /\ Decoded(rt) = [id |-> n, email |-> NoEmail, role |-> NoRole]]_vars

C10_Witness ==
    /\ last.op = "register" /\ last.res.status = 201
    /\ Len(users) = 2
    /\ users[2].role = "user" /\ users[2].isActive
    /\ last.res.accessToken.id = 2

\* a step that answers a call to a route behind the guard
GuardStep == last' # last /\ last'.op \in {"guard", "role", "status"}

\* the role set the route of request `l` is configured with
RequiredRoles(l) == IF l.op = "guard" THEN l.req.roles ELSE {"admin"}

\* the route of request `l` runs the role check
RoleChecked(l) ==
    l.op \in {"role", "status"} \/ l.req.mode \in {"mandatory+role", "optional+role"}

\* the bearer token of request `l` verifies at time t
Verifies(l, t) ==
    /\ ExtractBearer(l.req) # NoToken
    /\ VerifyToken(ExtractBearer(l.req), FALSE, jwtSecret, t).ok

\* C11: the role check answers 403 to every authenticated call whose role
\* claim is not in the required role set, without invoking the handler, and
\* answers a different error, 401, when no authenticated context is attached.
C11_RoleCheckForbids ==
    [][(GuardStep /\ RoleChecked(last'))
       => /\ (Verifies(last', now)
                /\ ExtractBearer(last'.req).role \notin RequiredRoles(last'))
              => (/\ last'.res.status = 403
                  /\ ~last'.res.handler
                  /\ last'.res.message # Authorize(RequiredRoles(last'), NoCtx).res.message)
          /\ (~Verifies(last', now) /\ last'.req.mode = "optional+role")
              => (/\ last'.res = Authorize(RequiredRoles(last'), NoCtx).res
                  /\ last'.res.status = 401
                  /\ ~last'.res.handler)]_vars

\* required_roles = {admin} called with a live access token of role user
C11_Witness ==
    /\ last.op = "guard" /\ last.req.mode = "mandatory+role"
    /\ last.req.roles = {"admin"}
    /\ IsAccessShape(last.req.token) /\ LiveToken(last.req.token)
    /\ last.req.token.role = "user"
    /\ last.res.status = 403 /\ ~last.res.handler

\* C12: a guard configured with the empty role set admits every authenticated
\* identity: a call with a valid access token, whatever its role, reaches the
\* handler.
C12_EmptyRoleSetAdmitsAll ==
    (/\ last.op = "guard" /\ last.req.mode = "mandatory+role"
     /\ last.req.roles = {}
     /\ last.req.scheme = "Bearer"
     /\ IsAccessShape(last.req.token) /\ LiveToken(last.req.token))
    => (last.res.handler /\ last.res.status = 200)

\* the route of request `l` is behind the mandatory guard alone
Mandatory(l) == l.op = "me" \/ (l.op = "guard" /\ l.req.mode = "mandatory")

\* C13: in mandatory mode the guard fails closed: the handler is invoked only
\* if a bearer token was extracted and verified as an access token; every
\* other call is answered 401, without the handler and with no context.
C13_MandatoryFailsClosed ==
    [][(last' # last /\ Mandatory(last'))
       => LET verified == Verifies(last', now) /\ IsAccessShape(ExtractBearer(last'.req))
          IN  /\ last'.res.handler => verified
              /\ ~verified => (/\ last'.res.status = 401
                               /\ ~last'.res.handler
                               /\ last'.res.user = NoCtx)]_vars

\* C14: in optional mode the guard never rejects: the handler is always
\* invoked; with no token or a token that fails verification it runs with no
\* context and nothing that tells why, and a context is attached only when
\* the token verified.
C14_OptionalNeverRejects ==
    [][(last' # last /\ last'.op = "guard" /\ last'.req.mode = "optional")
       => /\ last'.res.handler
          /\ ~Verifies(last', now) => last'.res = Handled(Res(200, "ok"), NoCtx)
          /\ last'.res.user # NoCtx
              => (/\ Verifies(last', now)
                  /\ last'.res.user = Decoded(ExtractBearer(last'.req)))]_vars

\* an expired access token of this server presented to an optional route
C14_Witness ==
    /\ last.op = "guard" /\ last.req.mode = "optional"
    /\ last.req.scheme = "Bearer"
    /\ IsAccessShape(last.req.token)
    /\ last.req.token.key = jwtSecret /\ last.req.token.iss = Issuer
    /\ last.req.token.aud = Audience
    /\ now >= last.req.token.exp
    /\ last.res.handler /\ last.res.user = NoCtx

\* C15: with no signing secret configured the process serves no request: no
\* register, login, refresh or guarded call is ever answered, so none gets a
\* per-call error caused by the missing key.
C15_NoSecretServesNothing ==
    jwtSecret = NoSecret => (last.op = "none" /\ last.res = NoRes)

\* the claims values and kinds the round trip is tried on
TokenClaims ==
    {[id |-> i, email |-> e, role |-> r] :
        i \in {1, 2}, e \in {"a@x.com"}, r \in Roles}
Kinds == {"access", "refresh"}
Lifetime(k) == IF k = "access" THEN AccessTTL ELSE RefreshTTL

\* issue(c, k, t): an access token carries c, a refresh token the id of c
Issue(c, k, secret, t) ==
    IF k = "access" THEN GenerateToken(c, secret, t)
    ELSE GenerateRefreshToken([id |-> c.id], secret, t)

ClaimsOf(c, k) ==
    IF k = "access" THEN c ELSE [id |-> c.id, email |-> NoEmail, role |-> NoRole]

\* verifying token tok of kind k, issued at time `issued`, at time t: accepted
\* exactly while t - issued is within the lifetime of k, and expired beyond
RoundTrip(tok, k, issued, t) ==
    LET v == VerifyToken(tok, k = "refresh", jwtSecret, t)
    IN  IF t - issued < Lifetime(k) THEN v.ok
        ELSE ~v.ok /\ v.err = "TokenExpiredError"

\* C16: a token of either kind issued at time now verifies, with the claims it
\* was issued for, at now + e for every e within the kind's lifetime and
\* fails as expired for every e beyond it; so do the tokens the clients hold,
\* counted from the login or registration that issued them.
C16_TokenRoundTrip ==
    jwtSecret # NoSecret
    => /\ \A c \in TokenClaims, k \in Kinds, e \in 0..(RefreshTTL + 1) :
              LET tok == Issue(c, k, jwtSecret, now)
              IN  /\ RoundTrip(tok, k, now, now + e)
                  /\ Decoded(tok) = ClaimsOf(c, k)
                  /\ tok.exp = now + Lifetime(k)
       /\ held.access # NoToken
              => RoundTrip(held.access, "access", users[held.access.id].lastLogin, now)
       /\ held.refresh # NoToken
              => RoundTrip(held.refresh, "refresh", users[held.refresh.id].lastLogin, now)

\* the held access token presented at the very instant of its expiry and
\* rejected, while the refresh token issued with it still verifies
C16_Witness ==
    /\ last.op = "guard" /\ last.req.mode = "mandatory"
    /\ last.req.scheme = "Bearer"
    /\ held.access # NoToken /\ last.req.token = held.access
    /\ now = held.access.exp
    /\ last.res.status = 401
    /\ held.refresh.id = held.access.id
    /\ VerifyToken(held.refresh, TRUE, jwtSecret, now).ok

\* the guard's decision for request `l` at time t, from the token, the key,
\* the time and the required role set alone
PassesGuard(l, t) ==
    /\ Verifies(l, t)
    /\ RoleChecked(l) => ExtractBearer(l.req).role \in RequiredRoles(l)

\* C17: the guard's decision is a function of (token, key, time, required
\* role set) only, whatever the user store holds: a call is let through to
\* the handler exactly when its token verifies and its role claim is in the
\* required set, and the context it gets is the token's claims, also after
\* the holder's role was changed or the account was deactivated.
C17_GuardIgnoresStore ==
    [][(/\ last' # last
        /\ \/ last'.op = "role"
           \/ (last'.op = "guard" /\ last'.req.mode \in {"mandatory", "mandatory+role"}))
       => /\ last'.res.handler = PassesGuard(last', now)
          /\ last'.res.handler => last'.res.user = Decoded(ExtractBearer(last'.req))
          /\ ~last'.res.handler
              => last'.res.status = (IF Verifies(last', now) THEN 403 ELSE 401)]_vars

\* an access token issued to an admin still passes authorize(['admin']) after
\* its holder was demoted and deactivated
C17_Witness ==
    /\ last.op = "guard" /\ last.req.mode = "mandatory+role"
    /\ last.req.roles = {"admin"}
    /\ IsAccessShape(last.req.token) /\ LiveToken(last.req.token)
    /\ last.req.token.role = "admin"
    /\ users[last.req.token.id].role # "admin"
    /\ ~users[last.req.token.id].isActive
    /\ last.res.handler /\ last.res.user.role = "admin"

\* C18: every refresh token issued by register or login carries the subject
\* id only; every access token issued by register, login or refresh carries
\* the id, email and role of the record as stored when it is issued; refresh
\* never issues a refresh token.
C18_TokenClaimShapes ==
    [][(last' # last /\ last'.op \in {"register", "login", "refresh"})
       => LET at == last'.res.accessToken
              rt == last'.res.refreshToken
          IN  /\ last'.op = "refresh" => rt = NoToken
              /\ rt # NoToken
                  => (/\ Decoded(rt) = [id |-> at.id, email |-> NoEmail, role |-> NoRole]
                      /\ IsRefreshShape(rt))
              /\ at # NoToken
                  => (/\ at.id \in 1..Len(users')
                      /\ Decoded(at) = [id |-> at.id, email |-> users'[at.id].email,
                                        role |-> users'[at.id].role]
                      /\ last'.op = "login" => Selects(last'.req, at.id))
              /\ last'.res.status \in {200, 201}
                  => (at # NoToken /\ (last'.op # "refresh" => rt # NoToken))]_vars

\* a login of a record whose role was changed since it registered
C18_Witness ==
    /\ last.op = "login" /\ last.res.status = 200
    /\ last.res.accessToken.role = "moderator"
    /\ last.res.accessToken.email = users[last.res.accessToken.id].email
    /\ IsRefreshShape(last.res.refreshToken)
    /\ last.res.refreshToken.id = last.res.accessToken.id

\* a step that answers a call to a route whose chain starts with authenticate
AuthenticateStep ==
    /\ last' # last
    /\ \/ last'.op \in {"me", "role"}
       \/ (last'.op = "guard" /\ last'.req.mode \in {"mandatory", "mandatory+role"})

\* C19: a request with no bearer token is rejected with an error distinct
\* from the one given to a bearer token that fails verification; a header
\* without the Bearer prefix counts as no token.
C19_NoTokenDistinctFromBadToken ==
    [][AuthenticateStep
       => LET absent == last'.req.scheme # "Bearer" \/ last'.req.token = NoToken
              failing == /\ ~absent
                         /\ ~VerifyToken(last'.req.token, FALSE, jwtSecret, now).ok
          IN  /\ absent => last'.res = Res(401, "Access token is required")
              /\ failing => (/\ ~last'.res.handler
                             /\ last'.res.status = 401
                             /\ last'.res # Res(401, "Access token is required"))]_vars

\* a live access token sent under the Basic scheme is treated as no token
C19_Witness ==
    /\ last.op = "guard" /\ last.req.mode = "mandatory"
    /\ last.req.scheme = "Basic"
    /\ IsAccessShape(last.req.token) /\ LiveToken(last.req.token)
    /\ last.res = Res(401, "Access token is required")

\* C20: every verification failure in the guard (malformed token, bad
\* signature, expired, issuer or audience mismatch) gets one and the same
\* payload, 401 "Invalid or expired token".
C20_UniformTokenError ==
    [][(/\ AuthenticateStep
        /\ last'.req.scheme = "Bearer" /\ last'.req.token # NoToken
        /\ ~VerifyToken(last'.req.token, FALSE, jwtSecret, now).ok)
       => last'.res = Res(401, "Invalid or expired token")]_vars

\* an expired token of this server, refused like the malformed and the
\* foreign ones
C20_Witness ==
    /\ last.op = "guard" /\ last.req.mode = "mandatory"
    /\ last.req.scheme = "Bearer"
    /\ last.req.token # NoToken /\ last.req.token = held.access
    /\ jwtSecret # NoSecret
    /\ now >= last.req.token.exp
    /\ last.res = Res(401, "Invalid or expired token")
    /\ last.res = Authenticate([scheme |-> "Bearer", token |-> GarbageToken],
                               jwtSecret, now).res
    /\ last.res = Authenticate([scheme |-> "Bearer", token |-> WrongAudienceToken],
                               jwtSecret, now).res

\* the operations served by the routes of /api/users and the roles each admits
UserRouteOps == {"profile", "password", "account", "list", "user", "role", "status"}
RouteRoles(op) ==
    IF op \in {"list", "role", "status"} THEN {"admin"}
    ELSE IF op = "user" THEN {"admin", "moderator"}
    ELSE Roles \cup {NoRole}

\* the bearer token of request `l` verified at the time the guard ran: at the
\* time of the answer, or earlier for a handler that was suspended meanwhile
VerifiedByGuard(l, t) ==
    IF l.op = "status" THEN \E s \in 0..t : Verifies(l, s) ELSE Verifies(l, t)

Caller(l) == ExtractBearer(l.req).id

\* C22: GET /api/users/profile is a read: for every authenticated request to
\* it, whatever its body, the caller's record is the same after the call as
\* before.
C22_GetProfileIsRead ==
    [][(/\ last' # last /\ last'.op = "profile" /\ last'.req.method = "GET"
        /\ Verifies(last', now)
        /\ Caller(last') \in UserIds)
       => users'[Caller(last')] = users[Caller(last')]]_vars

\* C23: every user record always has one role, a member of {admin, moderator,
\* user}; updateUserRole replaces the role in one step, and a request with a
\* value outside the enumeration is rejected and leaves the role unchanged.
C23_RoleInEnumeration ==
    [][/\ \A i \in UserIds : users[i].role \in Roles
       /\ \A i \in 1..Len(users') : users'[i].role \in Roles
       /\ (last' # last /\ last'.op = "role")
           => (/\ last'.req.role \notin Roles
                   => (last'.res.status \notin {200, 201} /\ users' = users)
               /\ last'.res.status = 200
                   => users' = [users EXCEPT ![last'.req.id].role = last'.req.role]
               /\ last'.res.status # 200 => users' = users)]_vars

\* C24: the stored credential of every record is always a one-way hash: after
\* any sequence of register, changePassword, updateProfile, login,
\* deleteAccount, updateUserRole and toggleUserStatus no password field holds
\* a plaintext value.
C24_PasswordAlwaysHashed ==
    \A i \in UserIds : users[i].password.hashed

\* C25: changePassword replaces the credential wholesale and only for a caller
\* who proves the current one.  With a wrong current password the answer is an
\* error and the store is unchanged; a change that succeeded was made with the
\* right current password, touches the credential alone and stores the hash of
\* the new password, after which (for an active account and a new password
\* that differs from the old one) login with the old password answers
\* invalid credentials and login with the new password succeeds.
PasswordStep == last' # last /\ last'.op = "password"

C26_ChangePasswordRulesEnforced ==
    [][(PasswordStep /\ last'.res.handler
                     /\ (\/ last'.req.newPassword = last'.req.password
                         \/ ~ValidPassword(last'.req.newPassword)))
        => (last'.res.status \notin {200, 201} /\ users' = users)]_vars

\* C27: account deletion is a soft delete guarded by the password.  With a
\* wrong password deleteAccount answers an error and changes nothing; with the
\* right one the record stays in the store and only its isActive flag becomes
\* false.  A login with the right credentials is answered with the
\* account-deactivated error exactly while the record it selects is inactive,
\* so from the deletion until a reactivation.
AccountStep == last' # last /\ last'.op = "account"

C27_SoftDeleteGuardedByPassword ==
    [][/\ AccountStep =>
            LET l == last'
                i == Caller(l)
            IN  /\ l.res.status # 200 => users' = users
                /\ (l.res.handler /\ i \in UserIds) =>
                    /\ ~ComparePassword(l.req.password, users[i].password)
                          => (l.res.status = 401 /\ users' = users)
                    /\ l.res.status = 200 =>
                        /\ ComparePassword(l.req.password, users[i].password)
                        /\ users' = [users EXCEPT ![i].isActive = FALSE]
       /\ (last' # last /\ last'.op = "login") =>
            \A i \in FindByEmailOrUsername(users, ToLowerCase(last'.req.email),
                                           last'.req.username) :
                ComparePassword(last'.req.password, users[i].password)
                    => (last'.res = AccountDeactivated <=> ~users[i].isActive)]_vars

C27_Witness ==
    /\ last.op = "account"
    /\ last.res.status = 200
    /\ ~users[1].isActive
    /\ ComparePassword(last.req.password, users[1].password)
    /\ LoginFound(users, 1, last.req.password, jwtSecret, FALSE, now) = AccountDeactivated

\* C28: tokens are stateless and there is no revocation.  A logout changes no
\* server state (store, signing key) and takes no token from the client, and
\* every token the guard accepted, respectively refresh accepted, before the
\* logout is accepted after it as well.
LogoutStep == last' # last /\ last'.op = "logout"

Bearer(tok) == [scheme |-> "Bearer", token |-> tok]

C28_LogoutRevokesNothing ==
    [][LogoutStep =>
        /\ users' = users /\ jwtSecret' = jwtSecret /\ held' = held /\ now' = now
        /\ \A tok \in {held.access, held.refresh, last'.req.token} :
              /\ Authenticate(Bearer(tok), jwtSecret, now).next
                    => Authenticate(Bearer(tok), jwtSecret', now').next
              /\ RefreshResponse(users, tok, jwtSecret, now).status = 200
                    => RefreshResponse(users', tok, jwtSecret', now').status = 200]_vars

C28_Witness ==
    /\ last.op = "logout"
    /\ last.res.status = 200
    /\ last.req.token = held.access
    /\ Authenticate(Bearer(held.access), jwtSecret, now).next
    /\ RefreshResponse(users, held.refresh, jwtSecret, now).status = 200

\* C29: credential verification never faults.  A login (through either login
\* handler) that names an active account and supplies a secret that does not
\* match the stored digest, or meets a malformed stored digest, is answered
\* with the 401 invalid-credentials error and never with a server error.
C29_CredentialCheckNeverFaults ==
    (/\ last.op \in {"login", "legacy_login"}
     /\ last.req.email = "root@x.com"
     /\ last.req.password # NoPassword
     /\ users[1].isActive
     /\ ~ComparePassword(last.req.password, users[1].password))
    => last.res.status = 401

\* C30: refresh with a valid refresh token whose subject id has no record is
\* answered with the 404 not-found error; refresh with a token that is
\* malformed, signed with another key or expired is answered with the 401
\* invalid-refresh-token error; neither answer carries an access token and no
\* refusal hands the client a token.
RefreshAnswered == last' # last /\ last'.op = "refresh"

C30_RefreshFailures ==
    [][RefreshAnswered =>
        LET tok == last'.req.token
        IN  /\ (LiveToken(tok) /\ tok.id \notin UserIds)
                  => last'.res = Res(404, "User not found")
            /\ (tok # NoToken /\ (\/ tok = GarbageToken
                                  \/ tok.key # jwtSecret
                                  \/ ~(now < tok.exp)))
                  => last'.res = Res(401, "Invalid refresh token")
            /\ last'.res.status # 200
                  => (last'.res.accessToken = NoToken /\ held' = held)]_vars

C30_Witness ==
    /\ last.op = "refresh"
    /\ last.req.token = OrphanToken
    /\ LiveToken(OrphanToken)
    /\ last.res.status = 404

\* C31: register is all-or-nothing: whenever register answers an error the
\* user store is what it was before the call, so the same fields can be
\* registered again without meeting a conflict.
C31_RegisterAllOrNothing ==
    [][(last' # last /\ last'.op = "register" /\ last'.res.status # 201)
        => users' = users]_vars

\* C32: while an account is inactive no operation issues a new access token
\* for it: a login, or a refresh presenting a refresh token, that answers
\* with an access token does so for an account that is active.
C32_NoTokenWhileInactive ==
    (/\ \/ last.op = "login"
        \/ last.op = "refresh" /\ IsRefreshShape(last.req.token)
     /\ last.res.accessToken # NoToken)
    => users[last.res.accessToken.id].isActive

\* C33: updateProfile never changes a record's role, isActive flag, email or
\* credential, and a record's role changes only in an updateUserRole step
\* whose caller presented a verified token carrying the role admin.
Protected(u) == <<u.role, u.isActive, u.email, u.password>>

C33_ProtectedFieldsFramed ==
    [][/\ (last' # last /\ last'.op = "profile")
            => \A i \in UserIds : Protected(users'[i]) = Protected(users[i])
       /\ (\E i \in UserIds : users'[i].role # users[i].role)
            => (/\ last'.op = "role"
                /\ LiveToken(last'.req.token)
                /\ last'.req.token.role = "admin")]_vars

\* C34: each invocation of authenticate, authorize and optionalAuth ends in
\* exactly one outcome, one call of next() or one rejection sent, never both
\* and never neither; the stages passed along the chain are an initial part
\* of NoToken, Extracted, Verified, Authorized; a middleware runs only when
\* every one before it called next(), so nothing runs after a rejection; the
\* handler is invoked exactly when the last middleware called next(), and
\* otherwise the response is the one rejection that was sent.
Stages == <<"NoToken", "Extracted", "Verified", "Authorized">>

StagesOf(runs) ==
    IF Len(runs) = 1 THEN runs[1].stages ELSE runs[1].stages \o runs[2].stages

C35_ToggleFlipsOnce ==
    [][(last' # last /\ last'.op = "status" /\ last'.res.status = 200)
        => users'[last'.req.id].isActive = ~users[last'.req.id].isActive]_vars

\* C36: protectRoute accepts a token only under the Bearer scheme: a request
\* to the protected route whose Authorization header uses another scheme, or
\* that has no such header, is answered 401 and the handler is not invoked.
C36_ProtectRouteBearerOnly ==
    (last.op = "protected" /\ last.req.scheme # "Bearer")
    => (last.res.status = 401 /\ ~last.res.handler)

====
